---- MODULE Spec2Model ----
(***************************************************************************)
(* PolyArena: the relay (src/party/server.ts, class GameServer) as a state *)
(* machine.  One action per handler: onConnect, onClose and onMessage with *)
(* one disjunct per case of its switch.  A handler runs to completion      *)
(* before the next one starts (single-threaded event loop), so each action *)
(* is the whole handler: the store mutation and every broadcast it makes.  *)
(***************************************************************************)
EXTENDS Integers, Sequences, FiniteSets, TLC

\* ------------------------------------------------------------------ bounds

\* Number of onMessage / onClose invocations explored.
MaxMsgs == 3

\* ------------------------------------------------------- program constants

\* hp given to a player by join (server.ts:46); the data model's upper bound.
SpawnHp == 100

\* ------------------------------------------------------------ input sets

\* Connection ids (conn.id, chosen by the transport).
ConnIds == {"c1", "c2"}

\* Player ids carried in messages (msg.id, msg.targetId, msg.sourceId).  The
\* relay takes whatever string the message holds, so a message may also name
\* a connection's id ("c1").
PlayerIds == {"c1", "p1", "p2"}

\* msg.nickname; "" stands for a missing or empty nickname.
Nicknames == {"", "ann"}

SpawnPosition == [x |-> 0, y |-> 1, z |-> 0]

Positions == {SpawnPosition, [x |-> 1, y |-> 1, z |-> 1]}

Rotations == {0, 1}

Directions == {[x |-> 1, y |-> 0, z |-> 0]}

\* msg.damage: healing (negative), partial, and lethal from full health.
Damages == {-10, 40, 100}

JoinMsgs ==
  {[type |-> "join", id |-> i, nickname |-> n] : i \in PlayerIds, n \in Nicknames}

UpdateMsgs ==
  {[type |-> "update", id |-> i, position |-> p, rotation |-> r] :
     i \in PlayerIds, p \in Positions, r \in Rotations}

ShootMsgs ==
  {[type |-> "shoot", id |-> i, position |-> SpawnPosition, direction |-> d] :
     i \in PlayerIds, d \in Directions}

HitMsgs ==
  {[type |-> "hit", targetId |-> t, sourceId |-> s, damage |-> d] :
     t \in PlayerIds, s \in PlayerIds, d \in Damages}

\* A well-formed JSON object whose type matches no case of the switch.
OtherMsgs == {[type |-> "kill", killerId |-> "p1", victimId |-> "p2"]}

\* Payloads JSON.parse rejects.
UnparsableTexts == {"{"}

\* The store's myId before a game starts (null).
NoId == "null"

\* No Opponent is mounted.
NoOpponent == [present |-> FALSE, x |-> 0, isDead |-> FALSE]

\* ------------------------------------------------------------------ state

VARIABLES
  players,   \* GameServer.players: player id -> Player record
  conns,     \* connection id -> "new" | "open" | "closed" (the room's connections)
  nmsgs,     \* number of onMessage / onClose invocations so far
  prev,      \* history: players as it was when the last handler started
  last,      \* history: the last handler invocation and its arguments
  sent,      \* history: the broadcasts made by the last handler, in order
  joinLog,   \* history: the join messages processed so far, in order, each
             \* with its sender and the team the join assigned
  build,     \* which GameScene the page has mounted; "none" in the lobby
  phase,     \* useGameStore phase
  nickname,  \* useGameStore nickname
  myId,      \* useGameStore myId; NoId stands for null
  mirror,    \* useGameStore players: the client's mirror of the roster
  captured,  \* the players object the message effect's closure holds
  cprev,     \* history: mirror as it was when the last client handler started
  clast,     \* history: the last client handler invocation and its arguments
  inbox,     \* messages the relay sent to the page's connection that the
             \* page's message handler has not run for yet, oldest first
  bullets,   \* GameScene's bullets state: the bullet records, oldest first
  bprev,     \* history: bullets as it was when the last page handler started
  clock,     \* the value Date.now() returns
  uuids,     \* number of ids uuidv4() has produced for bullets
  sock,      \* the page's socket: "none" | "connecting" | "open" | "closed"
  queued,    \* messages the socket holds back for when it opens
  csent,     \* history: the messages the socket transmitted during the last
             \* page handler, in order
  opp,       \* the state prop of the Opponent the page renders, or NoOpponent
  groupRef,  \* Opponent's groupRef.current: "null" | "group"
  shown,     \* x of the group's position: where the opponent is displayed
  nticks,    \* number of Opponent frames so far
  rlast      \* history: the last Opponent render or frame, with shown as it
             \* was before

relayVars == <<players, conns, nmsgs, prev, last, sent, joinLog>>

clientVars == <<build, phase, nickname, myId, mirror, captured, cprev, clast>>

\* The rest of the page's state.
bulletVars == <<bullets, bprev, clock, uuids>>

sockVars == <<sock, queued, csent>>

renderVars == <<opp, groupRef, shown, nticks, rlast>>

pageVars == <<bulletVars, sockVars, renderVars>>

vars == <<relayVars, clientVars, inbox, pageVars>>

OpenConns == {c \in ConnIds : conns[c] = "open"}

\* --------------------------------------------------------- pure helpers

\* this.party.broadcast(text, without): one send to every open connection
\* of the room except the ids listed in `without`.
Broadcast(m, cs, without) == [msg |-> m, to |-> cs \ without]

SyncMsg(ps) == [type |-> "sync", players |-> ps]

\* msg.nickname || 'Unknown'
NicknameOf(n) == IF n = "" THEN "Unknown" ELSE n

\* Mutant of TeamFor: the parity test inverted.
TeamForFlipped(ps) == IF Cardinality(DOMAIN ps) % 2 = 1 THEN "blue" ELSE "red"

\* Mutant of TeamFor: every joiner lands in the same team.
TeamForAlwaysBlue(ps) == "blue"

\* Object.keys(this.players).length % 2 === 0 ? 'blue' : 'red'
TeamFor(ps) == IF Cardinality(DOMAIN ps) % 2 = 0 THEN "blue" ELSE "red"

\* Mutant of NewPlayer: spawns at the origin instead of (0,1,0).
NewPlayerAtOrigin(ps, msg) ==
  [id |-> msg.id,
   nickname |-> NicknameOf(msg.nickname),
   position |-> [x |-> 0, y |-> 0, z |-> 0],
   rotation |-> 0,
   hp |-> SpawnHp,
   score |-> 0,
   isDead |-> FALSE,
   team |-> TeamFor(ps)]

\* The object literal of case 'join', evaluated against the store before
\* the assignment.
NewPlayer(ps, msg) ==
  [id |-> msg.id,
   nickname |-> NicknameOf(msg.nickname),
   position |-> SpawnPosition,
   rotation |-> 0,
   hp |-> SpawnHp,
   score |-> 0,
   isDead |-> FALSE,
   team |-> TeamFor(ps)]

\* Mutant of JoinPlayers: a join for an id already present keeps the old record.
JoinPlayersKeepExisting(ps, msg) ==
  [i \in DOMAIN ps \cup {msg.id} |-> IF i \in DOMAIN ps THEN ps[i] ELSE NewPlayer(ps, msg)]

\* Mutant of JoinPlayers: the store is replaced by one holding the joiner only.
JoinPlayersReplaceStore(ps, msg) == [i \in {msg.id} |-> NewPlayer(ps, msg)]

\* this.players[msg.id] = {...}
JoinPlayers(ps, msg) ==
  [i \in DOMAIN ps \cup {msg.id} |-> IF i = msg.id THEN NewPlayer(ps, msg) ELSE ps[i]]

JoinSent(ps2, cs) == <<Broadcast(SyncMsg(ps2), cs, {})>>

\* if (this.players[msg.id])
UpdateApplies(ps, msg) == msg.id \in DOMAIN ps

\* Mutant of UpdatePlayers: the rotation is added to the stored one instead
\* of replacing it.
UpdatePlayersAccumulate(ps, msg) ==
  IF msg.id \in DOMAIN ps
    THEN [ps EXCEPT ![msg.id].position = msg.position,
                    ![msg.id].rotation = @ + msg.rotation]
    ELSE ps

\* Mutant of UpdatePlayers: the pose is written to every record.
UpdatePlayersEveryone(ps, msg) ==
  IF msg.id \in DOMAIN ps
    THEN [i \in DOMAIN ps |->
            [ps[i] EXCEPT !.position = msg.position,
                          !.rotation = msg.rotation]]
    ELSE ps

UpdatePlayers(ps, msg) ==
  IF UpdateApplies(ps, msg)
    THEN [ps EXCEPT ![msg.id].position = msg.position,
                    ![msg.id].rotation = msg.rotation]
    ELSE ps

\* Mutant of UpdateSent: the relay is outside the if (this.players[msg.id]).
UpdateSentUnguarded(ps, msg, sender, cs) == <<Broadcast(msg, cs, {sender})>>

\* Mutant of UpdateSent: the sender is not excluded from the relay.
UpdateSentToAll(ps, msg, sender, cs) ==
  IF UpdateApplies(ps, msg) THEN <<Broadcast(msg, cs, {})>> ELSE <<>>

UpdateSent(ps, msg, sender, cs) ==
  IF UpdateApplies(ps, msg) THEN <<Broadcast(msg, cs, {sender})>> ELSE <<>>

\* Mutant of ShootSent: the shoot is relayed to the sender as well.
ShootSentToAll(msg, sender, cs) == <<Broadcast(msg, cs, {})>>

ShootSent(msg, sender, cs) == <<Broadcast(msg, cs, {sender})>>

\* Mutant of HitApplies: the !target.isDead test is missing.
HitAppliesToDead(ps, msg) == msg.targetId \in DOMAIN ps

\* if (target && !target.isDead)
HitApplies(ps, msg) ==
  msg.targetId \in DOMAIN ps /\ ~ps[msg.targetId].isDead

\* Mutant of HitTarget: the hp is not clamped at 0.
HitTargetNoClamp(t, damage) ==
  IF t.hp - damage <= 0
    THEN [t EXCEPT !.hp = t.hp - damage, !.isDead = TRUE]
    ELSE [t EXCEPT !.hp = t.hp - damage]

\* Mutant of HitTarget: the hit also turns the target around.
HitTargetTurned(t, damage) ==
  IF t.hp - damage <= 0
    THEN [t EXCEPT !.hp = 0, !.isDead = TRUE, !.rotation = 1 - @]
    ELSE [t EXCEPT !.hp = t.hp - damage, !.rotation = 1 - @]

\* target.hp -= msg.damage; if (target.hp <= 0) { target.hp = 0; target.isDead = true; }
HitTarget(t, damage) ==
  IF t.hp - damage <= 0
    THEN [t EXCEPT !.hp = 0, !.isDead = TRUE]
    ELSE [t EXCEPT !.hp = t.hp - damage]

\* Mutant of CreditSource: the point is taken instead of given.
CreditSourcePenalty(ps, msg) ==
  IF ps[msg.targetId].isDead /\ msg.sourceId \in DOMAIN ps
    THEN [ps EXCEPT ![msg.sourceId].score = @ - 1]
    ELSE ps

\* Mutant of CreditSource: the point is given outside the death branch.
CreditSourceOnEveryHit(ps, msg) ==
  IF msg.sourceId \in DOMAIN ps
    THEN [ps EXCEPT ![msg.sourceId].score = @ + 1]
    ELSE ps

\* Mutant of CreditSource: only a living source is given the point.
CreditSourceAliveOnly(ps, msg) ==
  IF /\ ps[msg.targetId].isDead
     /\ msg.sourceId \in DOMAIN ps
     /\ ~ps[msg.sourceId].isDead
    THEN [ps EXCEPT ![msg.sourceId].score = @ + 1]
    ELSE ps

\* if (source) source.score += 1, inside the branch that killed the target.
\* source and target may be the same record.
CreditSource(ps, msg) ==
  IF ps[msg.targetId].isDead /\ msg.sourceId \in DOMAIN ps
    THEN [ps EXCEPT ![msg.sourceId].score = @ + 1]
    ELSE ps

HitPlayers(ps, msg) ==
  IF HitApplies(ps, msg)
    THEN CreditSource(
           [ps EXCEPT ![msg.targetId] = HitTarget(ps[msg.targetId], msg.damage)],
           msg)
    ELSE ps

\* Mutant of HitSent: the sync follows every applied hit.
HitSentSyncAlways(ps, ps2, msg, cs) ==
  IF HitApplies(ps, msg)
    THEN <<Broadcast([type |-> "hit", targetId |-> msg.targetId,
                      damage |-> msg.damage, sourceId |-> msg.sourceId], cs, {}),
           Broadcast(SyncMsg(ps2), cs, {})>>
    ELSE <<>>

\* The broadcasts of case 'hit': the hit, then a sync if the target is dead.
HitSent(ps, ps2, msg, cs) ==
  IF HitApplies(ps, msg)
    THEN <<Broadcast([type |-> "hit", targetId |-> msg.targetId,
                      damage |-> msg.damage, sourceId |-> msg.sourceId], cs, {})>>
         \o (IF ps2[msg.targetId].isDead
               THEN <<Broadcast(SyncMsg(ps2), cs, {})>>
               ELSE <<>>)
    ELSE <<>>

\* Mutant of OtherSent: a default case answers with an error broadcast.
OtherSentError(msg, cs) == <<Broadcast([type |-> "error"], cs, {})>>

\* switch (msg.type) without a matching case and without a default: nothing
\* is broadcast.
OtherSent(msg, cs) == <<>>

\* delete this.players[conn.id]
ClosePlayers(ps, c) == [i \in DOMAIN ps \ {c} |-> ps[i]]

CloseSent(ps2, cs) == <<Broadcast(SyncMsg(ps2), cs, {})>>

\* The connection of the page the model follows, once it has mounted.
PageConn == "c1"

\* conn.send / room.broadcast towards the page: the messages of the
\* broadcasts bs that go to the page's connection, appended in order.
RECURSIVE Inbox(_, _, _)
Inbox(box, b, bs) ==
  IF bs = <<>> THEN box
  ELSE Inbox(IF b # "none" /\ PageConn \in Head(bs).to
               THEN Append(box, Head(bs).msg) ELSE box,
             b, Tail(bs))

\* ---------------------------------------------------------------- actions

Init ==
  /\ players = <<>>
  /\ conns = [c \in ConnIds |-> "new"]
  /\ nmsgs = 0
  /\ prev = <<>>
  /\ last = [op |-> "none"]
  /\ sent = <<>>
  /\ joinLog = <<>>
  /\ build = "none"
  /\ phase = "LOBBY"
  /\ nickname = ""
  /\ myId = NoId
  /\ mirror = <<>>
  /\ captured = <<>>
  /\ cprev = <<>>
  /\ clast = [op |-> "none"]
  /\ inbox = <<>>
  /\ bullets = <<>>
  /\ bprev = <<>>
  /\ clock = 0
  /\ uuids = 0
  /\ sock = "none"
  /\ queued = <<>>
  /\ csent = <<>>
  /\ opp = NoOpponent
  /\ groupRef = "null"
  /\ shown = 0
  /\ nticks = 0
  /\ rlast = [op |-> "none"]

\* onConnect(conn, ctx): logs only.
OnConnect(c) ==
  /\ conns[c] = "new"
  /\ conns' = [conns EXCEPT ![c] = "open"]
  /\ prev' = players
  /\ last' = [op |-> "connect", conn |-> c]
  /\ sent' = <<>>
  /\ inbox' = Inbox(inbox, build, sent')
  /\ UNCHANGED <<players, nmsgs, joinLog, clientVars, pageVars>>

\* onClose(conn)
OnClose(c) ==
  /\ conns[c] = "open"
  /\ nmsgs < MaxMsgs
  /\ conns' = [conns EXCEPT ![c] = "closed"]
  /\ players' = ClosePlayers(players, c)
  /\ prev' = players
  /\ last' = [op |-> "close", conn |-> c]
  /\ sent' = CloseSent(players', OpenConns \ {c})
  /\ nmsgs' = nmsgs + 1
  /\ inbox' = Inbox(inbox, build, sent')
  /\ UNCHANGED <<joinLog, clientVars, pageVars>>

\* The part of onMessage every case shares.
Received(c, msg) ==
  /\ conns[c] = "open"
  /\ prev' = players
  /\ last' = [op |-> "message", msg |-> msg, sender |-> c]
  /\ nmsgs' = nmsgs + 1
  /\ UNCHANGED <<conns, clientVars, pageVars>>

\* case 'join'
Join(c, msg) ==
  /\ Received(c, msg)
  /\ players' = JoinPlayers(players, msg)
  /\ sent' = JoinSent(players', OpenConns)
  /\ joinLog' = Append(joinLog, [id |-> msg.id, conn |-> c,
                                  team |-> players'[msg.id].team])
  /\ inbox' = Inbox(inbox, build, sent')

OnJoin(c) == nmsgs < MaxMsgs /\ \E msg \in JoinMsgs : Join(c, msg)

\* case 'update'
Update(c, msg) ==
  /\ Received(c, msg)
  /\ players' = UpdatePlayers(players, msg)
  /\ sent' = UpdateSent(players, msg, c, OpenConns)
  /\ inbox' = Inbox(inbox, build, sent')
  /\ UNCHANGED joinLog

OnUpdate(c) == nmsgs < MaxMsgs /\ \E msg \in UpdateMsgs : Update(c, msg)

\* case 'shoot'
Shoot(c, msg) ==
  /\ Received(c, msg)
  /\ sent' = ShootSent(msg, c, OpenConns)
  /\ inbox' = Inbox(inbox, build, sent')
  /\ UNCHANGED <<players, joinLog>>

OnShoot(c) == nmsgs < MaxMsgs /\ \E msg \in ShootMsgs : Shoot(c, msg)

\* case 'hit'
Hit(c, msg) ==
  /\ Received(c, msg)
  /\ players' = HitPlayers(players, msg)
  /\ sent' = HitSent(players, players', msg, OpenConns)
  /\ inbox' = Inbox(inbox, build, sent')
  /\ UNCHANGED joinLog

OnHit(c) == nmsgs < MaxMsgs /\ \E msg \in HitMsgs : Hit(c, msg)

\* No case matches: the switch falls through.
Other(c, msg) ==
  /\ Received(c, msg)
  /\ sent' = OtherSent(msg, OpenConns)
  /\ inbox' = Inbox(inbox, build, sent')
  /\ UNCHANGED <<players, joinLog>>

OnOther(c) == nmsgs < MaxMsgs /\ \E msg \in OtherMsgs : Other(c, msg)

\* JSON.parse(message) throws: the handler ends before the switch.
OnUnparsable(c) ==
  \E text \in UnparsableTexts :
    /\ conns[c] = "open"
    /\ nmsgs < MaxMsgs
    /\ prev' = players
    /\ last' = [op |-> "unparsable", text |-> text, sender |-> c]
    /\ sent' = <<>>
    /\ nmsgs' = nmsgs + 1
    /\ inbox' = Inbox(inbox, build, sent')
    /\ UNCHANGED <<players, conns, joinLog, clientVars, pageVars>>

Next ==
  \E c \in ConnIds :
    \/ OnConnect(c)
    \/ OnClose(c)
    \/ OnJoin(c)
    \/ OnUpdate(c)
    \/ OnShoot(c)
    \/ OnHit(c)
    \/ OnOther(c)
    \/ OnUnparsable(c)

Spec == Init /\ [][Next]_vars

\* ------------------------------------------------- the relay in a two-player game
\* Two connections, one player each: A on the first, B on the second.  Each
\* joins once, in either order; once both are in, each reports hits of
\* damage 10 on the other.

\* Number of onMessage invocations explored: two joins and eleven hits.
MaxScenarioMsgs == 13

PlayerA == "p1"

PlayerB == "p2"

ScenarioJoinMsg(c) ==
  [type |-> "join", id |-> IF c = "c1" THEN PlayerA ELSE PlayerB,
   nickname |-> "ann"]

ScenarioHitMsg(c) ==
  [type |-> "hit", targetId |-> IF c = "c1" THEN PlayerB ELSE PlayerA,
   sourceId |-> IF c = "c1" THEN PlayerA ELSE PlayerB, damage |-> 10]

ScenarioJoin(c) ==
  /\ nmsgs < MaxScenarioMsgs
  /\ \A i \in 1..Len(joinLog) : joinLog[i].conn # c
  /\ Join(c, ScenarioJoinMsg(c))

ScenarioHit(c) ==
  /\ nmsgs < MaxScenarioMsgs
  /\ Len(joinLog) = 2
  /\ Hit(c, ScenarioHitMsg(c))

ScenarioNext ==
  \E c \in ConnIds :
    \/ OnConnect(c)
    \/ ScenarioJoin(c)
    \/ ScenarioHit(c)

SpecScenario == Init /\ [][ScenarioNext]_vars

\* ------------------------------------------------- the relay under a duel
\* The same relay, driven only by joins and hits, for the claims about
\* several players hitting one target: longer runs over fewer messages.

\* Number of onMessage invocations explored in a duel.
MaxDuelMsgs == 5

DuelJoinMsgs == {m \in JoinMsgs : m.nickname = "ann"}

\* Hits that kill a target at full health.
DuelHitMsgs == {m \in HitMsgs : m.damage = SpawnHp}

DuelJoin(c) == nmsgs < MaxDuelMsgs /\ \E msg \in DuelJoinMsgs : Join(c, msg)

DuelHit(c) == nmsgs < MaxDuelMsgs /\ \E msg \in DuelHitMsgs : Hit(c, msg)

DuelNext ==
  \E c \in ConnIds :
    \/ OnConnect(c)
    \/ DuelJoin(c)
    \/ DuelHit(c)

SpecDuel == Init /\ [][DuelNext]_vars

\* ------------------------------------------------------ the client mirror
\* One browser page: the store (store.ts) and the message handler of the
\* GameScene it mounts.  The repository holds two handlers: the PartySocket
\* one (components/GameScene.tsx, and the same cases in the usePartySocket
\* variant) and the native WebSocket one, which guards on myId.  A page runs
\* one of them from mount on.  The messages that reach the page are drawn
\* from the shapes the relay sends.

Builds == {"PartySocket", "WebSocket"}

\* Values uuidv4() returns.
ClientUuids == {"p1", "p2"}

MAX_HP == 100

\* Players as the relay's sync carries them.
SyncVitals ==
  { [hp |-> 100, isDead |-> FALSE, score |-> 0],
    [hp |-> 60, isDead |-> FALSE, score |-> 1],
    [hp |-> 0, isDead |-> TRUE, score |-> 0] }

SyncPoses ==
  { [position |-> SpawnPosition, rotation |-> 0],
    [position |-> CHOOSE p \in Positions : p # SpawnPosition, rotation |-> 1] }

SyncPlayers ==
  { [id |-> i, nickname |-> "ann", position |-> q.position,
     rotation |-> q.rotation, hp |-> v.hp, score |-> v.score,
     isDead |-> v.isDead, team |-> IF i = "p1" THEN "blue" ELSE "red"] :
       i \in ClientUuids, q \in SyncPoses, v \in SyncVitals }

ClientSyncMsgs ==
  { SyncMsg(ps) : ps \in
      UNION { {f \in [D -> SyncPlayers] : \A i \in D : f[i].id = i} :
              D \in SUBSET ClientUuids } }

ClientUpdateMsgs == {m \in UpdateMsgs : m.id \in ClientUuids}

ClientHitMsgs ==
  {m \in HitMsgs : m.targetId \in ClientUuids /\ m.sourceId \in ClientUuids}

\* store.updatePlayer(id, data): merge into the record, or create it from
\* the defaults.
DefaultPlayer(id) ==
  [id |-> id, nickname |-> "Unknown", position |-> SpawnPosition,
   rotation |-> 0, hp |-> MAX_HP, isDead |-> FALSE, score |-> 0,
   color |-> "#ffffff", team |-> "blue"]

updatePlayerReplace(m, id, data) ==
  [i \in DOMAIN m \cup {id} |->
     IF i = id THEN data @@ DefaultPlayer(id) ELSE m[i]]

updatePlayer(m, id, data) ==
  [i \in DOMAIN m \cup {id} |->
     IF i = id
       THEN data @@ (IF id \in DOMAIN m THEN m[id] ELSE DefaultPlayer(id))
       ELSE m[i]]

\* Object.values(msg.players).forEach over the ids the handler lets through.
RECURSIVE ForEachPlayer(_, _, _)
ForEachPlayer(m, ps, ids) ==
  IF ids = {} THEN m
  ELSE LET i == CHOOSE j \in ids : TRUE
       IN  ForEachPlayer(updatePlayer(m, ps[i].id, ps[i]), ps, ids \ {i})

\* case 'sync' of the handler
SyncedIds(b, ps, me) ==
  IF b = "WebSocket" THEN {i \in DOMAIN ps : ps[i].id # me} ELSE DOMAIN ps

SyncMirror(b, m, msg, me) ==
  ForEachPlayer(m, msg.players, SyncedIds(b, msg.players, me))

\* case 'update' of the handler
UpdateMirror(b, m, msg, me) ==
  IF b = "WebSocket" /\ msg.id = me THEN m
  ELSE updatePlayer(m, msg.id,
                    [position |-> msg.position, rotation |-> msg.rotation])

\* case 'hit' of the handler: the PartySocket one waits for the sync; the
\* WebSocket one reads the target from the players object of the render in
\* which the effect ran.
HitMirror(b, m, seen, msg) ==
  IF b = "WebSocket" /\ msg.targetId \in DOMAIN seen
    THEN LET hp == seen[msg.targetId].hp - msg.damage
             newHp == IF hp > 0 THEN hp ELSE 0
         IN  updatePlayer(m, msg.targetId,
                          [hp |-> newHp, isDead |-> newHp <= 0])
    ELSE m

\* What the player can have typed into the name field, and localName.trim()
\* on it.
StartNames == Nicknames \cup {" "}

Trim(name) == IF name = " " THEN "" ELSE name

\* App.handleStart, and the mount of GameScene that setPhase('PLAYING')
\* causes: the connection effect creates the socket.
ClientStart ==
  \E name \in StartNames, id \in ClientUuids, b \in Builds :
    /\ phase = "LOBBY"
    /\ Trim(name) # ""
    /\ nickname' = name
    /\ myId' = id
    /\ mirror' = updatePlayer(mirror, id,
         [id |-> id, nickname |-> name, position |-> SpawnPosition,
          rotation |-> 0, hp |-> 100, isDead |-> FALSE, score |-> 0,
          color |-> "#3b82f6", team |-> "blue"])
    /\ phase' = "PLAYING"
    /\ build' = b
    /\ captured' = mirror'
    /\ cprev' = mirror
    /\ clast' = [op |-> "start"]
    /\ sock' = "connecting"
    /\ UNCHANGED <<relayVars, inbox, bulletVars, queued, csent, renderVars>>

\* The part every case of the message handler shares.
ClientReceived(msg) ==
  /\ build \in Builds
  /\ cprev' = mirror
  /\ clast' = [op |-> "message", msg |-> msg]
  /\ UNCHANGED <<build, phase, nickname, myId, captured, relayVars>>

ClientSync(msg) ==
  ClientReceived(msg) /\ mirror' = SyncMirror(build, mirror, msg, myId)

ClientUpdate(msg) ==
  ClientReceived(msg) /\ mirror' = UpdateMirror(build, mirror, msg, myId)

ClientHit(msg) ==
  ClientReceived(msg) /\ mirror' = HitMirror(build, mirror, captured, msg)

ClientOnSync ==
  \E msg \in ClientSyncMsgs : ClientSync(msg) /\ UNCHANGED <<inbox, pageVars>>

ClientOnUpdate ==
  \E msg \in ClientUpdateMsgs :
    ClientUpdate(msg) /\ UNCHANGED <<inbox, pageVars>>

ClientOnHit ==
  \E msg \in ClientHitMsgs : ClientHit(msg) /\ UNCHANGED <<inbox, pageVars>>

\* handlePlayerUpdate of the WebSocket GameScene, called by Player each
\* frame while the local player is alive: the pose goes into the mirror.
ClientLocalPose ==
  \E p \in Positions, r \in Rotations :
    /\ build = "WebSocket"
    /\ myId \in DOMAIN mirror
    /\ ~mirror[myId].isDead
    /\ mirror' = updatePlayer(mirror, myId, [position |-> p, rotation |-> r])
    /\ cprev' = mirror
    /\ clast' = [op |-> "pose"]
    /\ UNCHANGED <<build, phase, nickname, myId, captured, relayVars, inbox,
                   pageVars>>

ClientNext ==
  \/ ClientStart
  \/ ClientOnSync
  \/ ClientOnUpdate
  \/ ClientOnHit
  \/ ClientLocalPose

SpecClient == Init /\ [][ClientNext]_vars

\* ------------------------------------------------- one page on the relay
\* The page's socket is the relay's connection PageConn; a peer on the other
\* connection joins and the two hit each other.  What the relay sends to the
\* page waits in inbox until the page's message handler runs for it.

\* Number of onMessage invocations explored in a session.
MaxSessionMsgs == 4

PeerConn == "c2"

\* Non-lethal hits between the two players.
SessionHitMsgs == {m \in ClientHitMsgs : m.damage = 40}

\* The socket the mounted GameScene created connects.
SessionPageConnect == build # "none" /\ OnConnect(PageConn)

\* The 'open' listener of the page's socket: join under the store's myId and
\* nickname.
SessionPageJoin ==
  /\ nmsgs < MaxSessionMsgs
  /\ build # "none"
  /\ \A i \in 1..Len(joinLog) : joinLog[i].conn # PageConn
  /\ Join(PageConn, [type |-> "join", id |-> myId, nickname |-> nickname])

SessionPeerConnect == conns[PeerConn] = "new" /\ OnConnect(PeerConn)

SessionPeerJoin ==
  /\ nmsgs < MaxSessionMsgs
  /\ \E msg \in DuelJoinMsgs : msg.id \in ClientUuids /\ Join(PeerConn, msg)

SessionHit ==
  /\ nmsgs < MaxSessionMsgs
  /\ \E c \in ConnIds, msg \in SessionHitMsgs : Hit(c, msg)

\* The page's message listener runs for the oldest message in flight.
SessionDeliver ==
  /\ inbox # <<>>
  /\ inbox' = Tail(inbox)
  /\ UNCHANGED pageVars
  /\ LET msg == Head(inbox)
     IN  CASE msg.type = "sync" -> ClientSync(msg)
           [] msg.type = "update" -> ClientUpdate(msg)
           [] msg.type = "hit" -> ClientHit(msg)

SessionNext ==
  \/ ClientStart
  \/ SessionPageConnect
  \/ SessionPageJoin
  \/ SessionPeerConnect
  \/ SessionPeerJoin
  \/ SessionHit
  \/ SessionDeliver

SpecSession == Init /\ [][SessionNext]_vars

\* ------------------------------------------- the page: bullets and socket
\* The GameScene of one page with its socket and its bullets.  Time is the
\* value of Date.now(); frames, timers and socket events come in any order.

\* Most bullets the page holds at once in the runs explored.
MaxBullets == 2

\* Last clock value explored.
MaxClock == 1

\* Most bullets spawned under a uuid in the runs explored.
MaxUuids == 2

\* Most messages the socket holds back in the runs explored.
MaxQueued == 1

\* What a handler sees where the caller passed or stored nothing.
Undefined == "undefined"

\* What a bullet's sensor can intersect besides a player.
Wall == "wall"

\* damage of the hit the page reports
HitDamage == 10

PageShootMsgs == {m \in ShootMsgs : m.id \in ClientUuids}

\* A sync of both players at their spawn pose, each one either at its spawn
\* vitals or dead.
PageSyncMsgs ==
  {m \in ClientSyncMsgs :
     \A i \in ClientUuids :
       /\ i \in DOMAIN m.players
       /\ m.players[i].hp \in {SpawnHp, 0}
       /\ m.players[i].score = 0
       /\ m.players[i].position = SpawnPosition}

\* A hit that kills whoever it targets.
PageHitMsgs ==
  {m \in ClientHitMsgs : m.damage >= MAX_HP /\ m.targetId # m.sourceId}

\* The id a new bullet gets: `${owner}-${Date.now()}` in the PartySocket
\* GameScene, uuidv4() in the WebSocket one.
BulletId(b, owner, now, n) ==
  IF b = "WebSocket" THEN <<"uuid", n>> ELSE <<owner, now>>

\* handleLocalShoot / handlePlayerShoot: the bullet spawned for the page's
\* own shot.
LocalBulletUnowned(b, me, pos, dir, now, n) ==
  [id |-> BulletId(b, me, now, n), ownerId |-> Undefined, position |-> pos,
   direction |-> dir, timestamp |-> now]

LocalBullet(b, me, pos, dir, now, n) ==
  [id |-> BulletId(b, me, now, n), ownerId |-> me, position |-> pos,
   direction |-> dir, timestamp |-> now]

\* case 'shoot' of the message handler: { ...msg, id, timestamp } carries no
\* ownerId in the PartySocket GameScene; spawnBullet(msg.id, ...) sets it in
\* the WebSocket one.
RemoteBullet(b, msg, now, n) ==
  [id |-> BulletId(b, msg.id, now, n),
   ownerId |-> IF b = "WebSocket" THEN msg.id ELSE Undefined,
   position |-> msg.position, direction |-> msg.direction, timestamp |-> now]

\* The WebSocket handler mirrors no shot of its own id.
ShootMirrored(b, msg, me) == ~(b = "WebSocket" /\ msg.id = me)

\* Player's useFrame runs its body: the local player exists and is alive.
LocalAliveOrDead == myId \in DOMAIN mirror

LocalAlive == myId \in DOMAIN mirror /\ ~mirror[myId].isDead

\* socket.send behind a readyState === OPEN check.
GuardedSend(st, m) == IF st = "open" THEN <<m>> ELSE <<>>

\* setBullets(prev => prev.filter(x => x.id !== id))
RemoveBullet(bs, id) == SelectSeq(bs, LAMBDA x : x.id # id)

\* Bullet's onIntersectionEnter: onHit(data.id), whatever was intersected.
IntersectArgs(b, victim) == [bulletId |-> b.id, targetId |-> Undefined]

\* The onHit handler's condition for reporting a hit.
ReportsHit(b, args, me) ==
  b.ownerId = me /\ args.targetId # Undefined /\ args.targetId # me

HitReport(args, me) ==
  [type |-> "hit", targetId |-> args.targetId, sourceId |-> me,
   damage |-> HitDamage]

\* What every page handler outside the message listener records.
PageHandler(op) ==
  /\ build \in Builds
  /\ cprev' = mirror
  /\ bprev' = bullets
  /\ clast' = op @@ [sock |-> sock]
  /\ UNCHANGED <<build, phase, nickname, myId, captured, relayVars, inbox,
                 renderVars>>

\* The socket opens: it transmits what it held back, and the 'open' listener
\* sends the join.  Which of the two comes first is the library's: it
\* empties its queue before or after it calls the listeners.
SockOpen ==
  \E flushFirst \in BOOLEAN :
  /\ sock = "connecting"
  /\ PageHandler([op |-> "open"])
  /\ sock' = "open"
  /\ LET join == <<[type |-> "join", id |-> myId, nickname |-> nickname]>>
     IN  csent' = IF flushFirst THEN queued \o join ELSE join \o queued
  /\ queued' = <<>>
  /\ UNCHANGED <<mirror, bullets, clock, uuids>>

\* The connection is lost.
SockClose ==
  /\ sock = "open"
  /\ PageHandler([op |-> "close"])
  /\ sock' = "closed"
  /\ csent' = <<>>
  /\ UNCHANGED <<mirror, bullets, clock, uuids, queued>>

\* PartySocket connects again by itself.
SockReconnect ==
  /\ sock = "closed"
  /\ build = "PartySocket"
  /\ PageHandler([op |-> "reconnect"])
  /\ sock' = "connecting"
  /\ csent' = <<>>
  /\ UNCHANGED <<mirror, bullets, clock, uuids, queued>>

\* Date.now() moves on.
ClockTick ==
  /\ clock < MaxClock
  /\ PageHandler([op |-> "clock"])
  /\ clock' = clock + 1
  /\ csent' = <<>>
  /\ UNCHANGED <<mirror, bullets, uuids, sock, queued>>

\* The message listener, case 'sync'.
PageSync ==
  \E msg \in PageSyncMsgs :
    /\ sock = "open"
    /\ ClientSync(msg)
    /\ bprev' = bullets
    /\ csent' = <<>>
    /\ UNCHANGED <<inbox, bullets, clock, uuids, sock, queued, renderVars>>

\* The message listener, case 'hit'.
PageHit ==
  \E msg \in PageHitMsgs :
    /\ sock = "open"
    /\ ClientHit(msg)
    /\ bprev' = bullets
    /\ csent' = <<>>
    /\ UNCHANGED <<inbox, bullets, clock, uuids, sock, queued, renderVars>>

\* The message listener, case 'shoot'.
PageRemoteShoot ==
  \E msg \in PageShootMsgs :
    /\ sock = "open"
    /\ Len(bullets) < MaxBullets
    /\ uuids < MaxUuids
    /\ ClientReceived(msg)
    /\ bprev' = bullets
    /\ bullets' = IF ShootMirrored(build, msg, myId)
                    THEN Append(bullets, RemoteBullet(build, msg, clock, uuids))
                    ELSE bullets
    /\ uuids' = IF build = "WebSocket" /\ ShootMirrored(build, msg, myId)
                  THEN uuids + 1 ELSE uuids
    /\ csent' = <<>>
    /\ UNCHANGED <<mirror, inbox, clock, sock, queued, renderVars>>

\* Player's frame sees a new shootTimestamp and calls onShoot:
\* handleLocalShoot (PartySocket) sends without looking at readyState, and
\* what the socket does with a message while it is not open is the
\* library's: it discards it or holds it back for the next open.
\* handlePlayerShoot (WebSocket) sends behind the readyState check.
PageShoot ==
  \E pos \in {SpawnPosition}, dir \in Directions, held \in BOOLEAN :
    LET msg == [type |-> "shoot", id |-> myId, position |-> pos,
                direction |-> dir]
    IN  /\ LocalAlive
        /\ Len(bullets) < MaxBullets
        /\ uuids < MaxUuids
        /\ Len(queued) < MaxQueued
        /\ PageHandler([op |-> "shoot", msg |-> msg])
        /\ bullets' = Append(bullets,
                             LocalBullet(build, myId, pos, dir, clock, uuids))
        /\ uuids' = IF build = "WebSocket" THEN uuids + 1 ELSE uuids
        /\ csent' = GuardedSend(sock, msg)
        /\ queued' = IF build = "PartySocket" /\ sock # "open" /\ held
                       THEN Append(queued, msg) ELSE queued
        /\ held => build = "PartySocket" /\ sock # "open"
        /\ UNCHANGED <<mirror, clock, sock>>

\* Player's frame: it returns at once unless the local player is alive, and
\* otherwise calls onUpdate: handleLocalUpdate (PartySocket) sends the pose;
\* handlePlayerUpdate (WebSocket) writes it into the mirror.
PageFrame ==
  \E pose \in SyncPoses :
    LET pos == pose.position
        rot == pose.rotation
        msg == [type |-> "update", id |-> myId, position |-> pos,
                rotation |-> rot]
    IN  /\ PageHandler([op |-> "frame", msg |-> msg])
        /\ mirror' = IF LocalAlive /\ build = "WebSocket"
                       THEN updatePlayer(mirror, myId,
                              [position |-> pos, rotation |-> rot])
                       ELSE mirror
        /\ csent' = IF LocalAlive /\ build = "PartySocket"
                      THEN GuardedSend(sock, msg)
                      ELSE <<>>
        /\ UNCHANGED <<bullets, clock, uuids, sock, queued>>

\* The setInterval callback of the WebSocket GameScene.
PageInterval ==
  /\ build = "WebSocket"
  /\ myId \in DOMAIN mirror
  /\ PageHandler([op |-> "interval"])
  /\ csent' = IF mirror[myId].isDead THEN <<>>
              ELSE GuardedSend(sock,
                     [type |-> "update", id |-> myId,
                      position |-> mirror[myId].position,
                      rotation |-> mirror[myId].rotation])
  /\ UNCHANGED <<mirror, bullets, clock, uuids, sock, queued>>

\* A bullet's sensor intersects something: the onHit handler of the
\* PartySocket GameScene.
PageIntersect ==
  \E i \in 1..Len(bullets), victim \in {Wall} \cup DOMAIN mirror :
    LET b == bullets[i]
        args == IntersectArgs(b, victim)
    IN  /\ build = "PartySocket"
        /\ PageHandler([op |-> "intersect", bullet |-> b, victim |-> victim])
        /\ csent' = IF ReportsHit(b, args, myId)
                      THEN GuardedSend(sock, HitReport(args, myId))
                      ELSE <<>>
        /\ bullets' = RemoveBullet(bullets, b.id)
        /\ UNCHANGED <<mirror, clock, uuids, sock, queued>>

\* The 2 s timer spawnBullet set in the WebSocket GameScene runs out.
PageExpire ==
  \E i \in 1..Len(bullets) :
    /\ build = "WebSocket"
    /\ PageHandler([op |-> "expire", bullet |-> bullets[i]])
    /\ bullets' = RemoveBullet(bullets, bullets[i].id)
    /\ csent' = <<>>
    /\ UNCHANGED <<mirror, clock, uuids, sock, queued>>

PageNext ==
  \/ ClientStart
  \/ SockOpen
  \/ SockClose
  \/ SockReconnect
  \/ ClockTick
  \/ PageSync
  \/ PageHit
  \/ PageRemoteShoot
  \/ PageShoot
  \/ PageFrame
  \/ PageInterval
  \/ PageIntersect
  \/ PageExpire

SpecPage == Init /\ [][PageNext]_vars

\* The page kept running: the render loop calls the frame callback again
\* and again, and a pending setTimeout callback is eventually called.
\* Nothing makes a bullet's sensor meet anything.
SpecPageLive == SpecPage /\ WF_vars(PageFrame) /\ WF_vars(PageExpire)

\* ---------------------------------------------------- the client's store
\* The store's functions called with any id and the data their callers pass.

\* store.removePlayer(id)
removePlayer(m, id) == [i \in DOMAIN m \ {id} |-> m[i]]

\* players: {} of resetGame
ResetPlayersKept(m) == m

ResetPlayers(m) == <<>>

\* The data objects the callers of updatePlayer pass: a pose, vitals, a
\* whole player of a sync.
StoreData ==
  {q \in SyncPoses : q.position # SpawnPosition}
    \cup {[hp |-> 0, isDead |-> TRUE]}
    \cup {p \in SyncPlayers : p.hp = 60 /\ p.position = SpawnPosition}

StoreUpdatePlayer ==
  \E id \in ClientUuids, data \in StoreData :
    /\ "id" \in DOMAIN data => data.id = id
    /\ mirror' = updatePlayer(mirror, id, data)
    /\ cprev' = mirror
    /\ clast' = [op |-> "updatePlayer", id |-> id, data |-> data]
    /\ UNCHANGED <<build, phase, nickname, myId, captured, relayVars, inbox,
                   pageVars>>

StoreRemovePlayer ==
  \E id \in ClientUuids :
    /\ mirror' = removePlayer(mirror, id)
    /\ cprev' = mirror
    /\ clast' = [op |-> "removePlayer", id |-> id]
    /\ UNCHANGED <<build, phase, nickname, myId, captured, relayVars, inbox,
                   pageVars>>

StoreNext ==
  \/ StoreUpdatePlayer
  \/ StoreRemovePlayer

SpecStore == Init /\ [][StoreNext]_vars

\* ------------------------------------------------------- the game's phase
\* What can run between the lobby and the game: start, the socket and its
\* message listener, restart.

\* store.resetGame(), and the unmount of GameScene that phase 'LOBBY'
\* causes: the socket is closed and the component's state is gone.
StoreReset ==
  /\ mirror' = ResetPlayers(mirror)
  /\ phase' = "LOBBY"
  /\ myId' = NoId
  /\ build' = "none"
  /\ captured' = <<>>
  /\ sock' = "none"
  /\ queued' = <<>>
  /\ csent' = <<>>
  /\ bullets' = <<>>
  /\ bprev' = bullets
  /\ cprev' = mirror
  /\ clast' = [op |-> "reset"]
  /\ UNCHANGED <<nickname, relayVars, inbox, clock, uuids, renderVars>>

\* The message listener, case 'update'.
PageUpdate ==
  \E msg \in ClientUpdateMsgs :
    /\ sock = "open"
    /\ [position |-> msg.position, rotation |-> msg.rotation] \in SyncPoses
    /\ ClientUpdate(msg)
    /\ bprev' = bullets
    /\ csent' = <<>>
    /\ UNCHANGED <<inbox, bullets, clock, uuids, sock, queued, renderVars>>

PhaseNext ==
  \/ ClientStart
  \/ SockOpen
  \/ PageSync
  \/ PageUpdate
  \/ PageHit
  \/ PageRemoteShoot
  \/ StoreReset

SpecPhase == Init /\ [][PhaseNext]_vars

\* ------------------------------------------------- the page: one Opponent
\* The Opponent component of one remote player, along x.  Its state prop is
\* drawn from the values below; positions are whole multiples of 1/Unit so
\* that every frame's product is exact.

\* Number of Opponent frames explored.
MaxRenderTicks == 4

RECURSIVE Pow2(_)
Pow2(n) == IF n = 0 THEN 1 ELSE 2 * Pow2(n - 1)

Unit == Pow2(MaxRenderTicks)

\* Target x positions, one and two units apart.
OppTargets == {0, Unit, 2 * Unit}

\* delta is counted in 1/DtDen seconds: frames of 0.05, 0.1, 0.15, 0.25 s.
DtDen == 20

Dts == {1, 2, 3, 5}

\* the factor of delta in position.lerp(targetPos, 10 * delta)
LerpRate == 10

\* Vector3.lerp(v, alpha) with alpha = 10 * delta: x += (v.x - x) * alpha.
Lerp(x, t, dt) == x + ((t - x) * LerpRate * dt) \div DtDen

\* What Opponent returns: null for a dead player, the group otherwise.
RenderedAlways(dead) == "group"

Rendered(dead) == IF dead THEN "null" ELSE "group"

\* GameScene renders Opponent with a new state.  A group that mounts takes
\* the position prop; on a mounted group the renderer either leaves the
\* position to the frames or sets it from the changed prop.
OppRender ==
  \E x \in OppTargets, dead \in BOOLEAN, applied \in BOOLEAN :
    /\ opp' = [present |-> TRUE, x |-> x, isDead |-> dead]
    /\ groupRef' = Rendered(dead)
    /\ shown' = IF groupRef' = "null" THEN shown
                ELSE IF groupRef = "null" \/ applied THEN x ELSE shown
    /\ applied => groupRef = "group" /\ groupRef' = "group"
    /\ rlast' = [op |-> "render", before |-> shown]
    /\ UNCHANGED <<nticks, relayVars, clientVars, inbox, bulletVars, sockVars>>

\* Opponent's useFrame callback.
OppTick ==
  \E dt \in Dts :
    /\ opp # NoOpponent
    /\ nticks < MaxRenderTicks
    /\ nticks' = nticks + 1
    /\ shown' = IF groupRef = "null" THEN shown ELSE Lerp(shown, opp.x, dt)
    /\ rlast' = [op |-> "tick", dt |-> dt, before |-> shown]
    /\ UNCHANGED <<opp, groupRef, relayVars, clientVars, inbox, bulletVars,
                   sockVars>>

RenderNext ==
  \/ OppRender
  \/ OppTick

SpecRender == Init /\ [][RenderNext]_vars

\* ------------------------------------------------- vocabulary of the claims

\* The last handler was onMessage with a message of type t.
LastMsg(t) == last.op = "message" /\ last.msg.type = t

LastClose == last.op = "close"

Max0(n) == IF n > 0 THEN n ELSE 0

\* The last handler was a hit whose target was in the store and alive.
HitOnAlive ==
  /\ LastMsg("hit")
  /\ last.msg.targetId \in DOMAIN prev
  /\ ~prev[last.msg.targetId].isDead

\* The last handler was a hit that took its target from alive to dead.
HitKilled == HitOnAlive /\ players[last.msg.targetId].isDead

\* Every handler invocation so far was a join message.
OnlyJoins == nmsgs = Len(joinLog)

\* The joins so far named pairwise different ids.
DistinctJoins ==
  \A j, k \in 1..Len(joinLog) : j # k => joinLog[j].id # joinLog[k].id

\* The team of the k-th join when teams go by the parity of the join order.
JoinOrderTeam(k) == IF k % 2 = 1 THEN "blue" ELSE "red"

\* The ids named by the join messages connection c has sent.
JoinedIds(c) == {joinLog[k].id : k \in {j \in 1..Len(joinLog) : joinLog[j].conn = c}}

\* The last handler broadcast exactly one message, a sync, to the set `to`.
SentOneSyncTo(to) ==
  /\ Len(sent) = 1
  /\ sent[1].msg.type = "sync"
  /\ sent[1].to = to

\* ------------------------------------------------------------------ claims

\* C1: a hit on a target that is in the store and alive with hp = h leaves
\* the target with hp = max(0, h - damage), and the target is dead afterwards
\* exactly when that hp is 0.
C1_HitHp ==
  HitOnAlive =>
    LET t == last.msg.targetId IN
    /\ t \in DOMAIN players
    /\ players[t].hp = Max0(prev[t].hp - last.msg.damage)
    /\ players[t].isDead <=> (players[t].hp = 0)

\* Witness of C1: a hit whose damage exceeds the remaining hp was clamped.
C1_Witness ==
  /\ HitOnAlive
  /\ prev[last.msg.targetId].hp - last.msg.damage < 0
  /\ players[last.msg.targetId].hp = 0

\* C2: on a hit the source's score grows by exactly 1 when the target went
\* from alive to dead on this message and the source is in the store; no
\* other score changes, and no score changes on any other hit.
C2_HitScore ==
  LastMsg("hit") =>
    /\ DOMAIN players = DOMAIN prev
    /\ \A i \in DOMAIN players :
         players[i].score =
           prev[i].score + (IF HitKilled /\ i = last.msg.sourceId THEN 1 ELSE 0)

\* Witness of C2: a kill credited to a source other than the target.
C2_Witness ==
  /\ HitKilled
  /\ last.msg.sourceId \in DOMAIN prev
  /\ last.msg.sourceId # last.msg.targetId
  /\ players[last.msg.sourceId].score = prev[last.msg.sourceId].score + 1

\* C3: a hit whose target is absent from the store or already dead changes
\* nothing in the store and broadcasts nothing.
C3_HitDropped ==
  (LastMsg("hit") /\ ~HitOnAlive) => (players = prev /\ sent = <<>>)

\* Witness of C3: a hit on a dead target while its source is in the store.
C3_Witness ==
  /\ LastMsg("hit")
  /\ last.msg.targetId \in DOMAIN prev
  /\ prev[last.msg.targetId].isDead
  /\ last.msg.sourceId \in DOMAIN prev
  /\ OpenConns # {}

\* C4: in every reachable store every player's hp is within 0..100 and
\* isDead is true exactly when hp is 0.
C4_HpRange ==
  \A i \in DOMAIN players :
    /\ players[i].hp \in 0..SpawnHp
    /\ players[i].isDead <=> (players[i].hp = 0)

\* C5: closing a connection that joined as player id X removes exactly X:
\* X is absent from the store and from the sync the close broadcasts, and
\* every other record is unchanged.
C5_CloseRemovesJoined ==
  \A x \in PlayerIds :
    (LastClose /\ JoinedIds(last.conn) = {x}) =>
      /\ x \notin DOMAIN players
      /\ SentOneSyncTo(OpenConns)
      /\ x \notin DOMAIN sent[1].msg.players
      /\ \A i \in DOMAIN prev \ {x} : i \in DOMAIN players /\ players[i] = prev[i]

\* C6 as stated: after any N joins on a fresh relay the sync holds exactly N
\* players and the k-th joiner is blue for odd k, red for even k.
C6_AnyJoins ==
  (LastMsg("join") /\ OnlyJoins) =>
    /\ SentOneSyncTo(OpenConns)
    /\ Cardinality(DOMAIN sent[1].msg.players) = Len(joinLog)
    /\ \A k \in 1..Len(joinLog) :
         /\ joinLog[k].id \in DOMAIN sent[1].msg.players
         /\ sent[1].msg.players[joinLog[k].id].team = JoinOrderTeam(k)

\* C6 amended: after N joins with pairwise different ids on a fresh relay
\* the sync holds exactly N players and the k-th joiner is blue for odd k,
\* red for even k.
C6_DistinctJoins ==
  (LastMsg("join") /\ OnlyJoins /\ DistinctJoins) =>
    /\ SentOneSyncTo(OpenConns)
    /\ Cardinality(DOMAIN sent[1].msg.players) = Len(joinLog)
    /\ \A k \in 1..Len(joinLog) :
         /\ joinLog[k].id \in DOMAIN sent[1].msg.players
         /\ sent[1].msg.players[joinLog[k].id].team = JoinOrderTeam(k)

\* Witness of C6: three joins with different ids, and nothing else, on a
\* fresh relay.
C6_Witness ==
  /\ LastMsg("join")
  /\ OnlyJoins
  /\ DistinctJoins
  /\ Len(joinLog) = 3
  /\ OpenConns = ConnIds

\* C7 as stated: the k-th join overall is given blue when k is odd and red
\* when k is even, so consecutive joins get different teams.
C7_JoinOrderParity ==
  \A k \in 1..Len(joinLog) :
    /\ joinLog[k].team = JoinOrderTeam(k)
    /\ k > 1 => joinLog[k].team # joinLog[k - 1].team

\* C7 amended: a join is given blue when the number of records in the store
\* just before it is even and red when it is odd; this is the parity of its
\* join order, and differs from the team given to the join before it,
\* whenever the store holds one record per earlier join (no earlier join
\* named an id already present and no record was removed).
C7_StoreSizeParity ==
  LastMsg("join") =>
    LET n == Len(joinLog)
        size == Cardinality(DOMAIN prev) IN
    /\ joinLog[n].team = (IF size % 2 = 0 THEN "blue" ELSE "red")
    /\ size = n - 1 =>
         /\ joinLog[n].team = JoinOrderTeam(n)
         /\ n > 1 => joinLog[n].team # joinLog[n - 1].team

\* Witness of C7: a second or later join that finds one record per earlier
\* join, interleaved with other handlers.
C7_Witness ==
  /\ LastMsg("join")
  /\ Len(joinLog) > 1
  /\ Cardinality(DOMAIN prev) = Len(joinLog) - 1
  /\ nmsgs > Len(joinLog)

\* C8: a join inserts a player at (0,1,0) with rotation 0, hp 100, score 0,
\* alive, blue if the store held an even number of players before the insert
\* and red otherwise; it broadcasts exactly one sync, to all connections
\* including the sender, holding every player of the store with the new one.
C8_JoinInserts ==
  LastMsg("join") =>
    LET p == players[last.msg.id] IN
    /\ p.id = last.msg.id
    /\ p.position = [x |-> 0, y |-> 1, z |-> 0]
    /\ p.rotation = 0
    /\ p.hp = 100
    /\ p.score = 0
    /\ p.isDead = FALSE
    /\ p.team = (IF Cardinality(DOMAIN prev) % 2 = 0 THEN "blue" ELSE "red")
    /\ SentOneSyncTo(OpenConns)
    /\ last.sender \in sent[1].to
    /\ sent[1].msg.players = players
    /\ last.msg.id \in DOMAIN sent[1].msg.players

\* Witness of C8: a new id joins a store of one player while two
\* connections are open.
C8_Witness ==
  /\ LastMsg("join")
  /\ last.msg.id \notin DOMAIN prev
  /\ Cardinality(DOMAIN prev) = 1
  /\ OpenConns = ConnIds
  /\ players[last.msg.id].team = "red"

\* C9: a join for an id already in the store leaves the number of players
\* unchanged with exactly one record of that id, changes no other record,
\* and resets that record's hp to 100, score to 0, isDead to false and
\* position to (0,1,0).
C9_Rejoin ==
  (LastMsg("join") /\ last.msg.id \in DOMAIN prev) =>
    LET x == last.msg.id IN
    /\ DOMAIN players = DOMAIN prev
    /\ Cardinality({i \in DOMAIN players : players[i].id = x}) = 1
    /\ \A i \in DOMAIN prev \ {x} : players[i] = prev[i]
    /\ players[x].hp = 100
    /\ players[x].score = 0
    /\ players[x].isDead = FALSE
    /\ players[x].position = [x |-> 0, y |-> 1, z |-> 0]

\* Witness of C9: a dead player holding a point joins again.
C9_Witness ==
  /\ LastMsg("join")
  /\ last.msg.id \in DOMAIN prev
  /\ prev[last.msg.id].isDead
  /\ prev[last.msg.id].score = 1
  /\ players[last.msg.id].hp = 100

\* C10: an update for an id in the store overwrites that player's position
\* and rotation and nothing else in the store, and is relayed exactly once,
\* to every connection except the sender.
C10_Update ==
  (LastMsg("update") /\ last.msg.id \in DOMAIN prev) =>
    LET x == last.msg.id IN
    /\ DOMAIN players = DOMAIN prev
    /\ \A i \in DOMAIN prev \ {x} : players[i] = prev[i]
    /\ players[x].position = last.msg.position
    /\ players[x].rotation = last.msg.rotation
    /\ players[x].id = prev[x].id
    /\ players[x].nickname = prev[x].nickname
    /\ players[x].hp = prev[x].hp
    /\ players[x].score = prev[x].score
    /\ players[x].isDead = prev[x].isDead
    /\ players[x].team = prev[x].team
    /\ Len(sent) = 1
    /\ sent[1].msg = last.msg
    /\ sent[1].to = OpenConns \ {last.sender}
    /\ last.sender \notin sent[1].to

\* Witness of C10: an update that moves and turns one of two players while
\* two connections are open.
C10_Witness ==
  /\ LastMsg("update")
  /\ last.msg.id \in DOMAIN prev
  /\ Cardinality(DOMAIN prev) = 2
  /\ prev[last.msg.id].position # last.msg.position
  /\ prev[last.msg.id].rotation # last.msg.rotation
  /\ OpenConns = ConnIds
  /\ sent[1].to = ConnIds \ {last.sender}

\* The last handler received a malformed message: a payload JSON.parse
\* rejects, or an object whose type is none of join/update/shoot/hit.
Malformed ==
  \/ last.op = "unparsable"
  \/ last.op = "message" /\ last.msg.type \notin {"join", "update", "shoot", "hit"}

\* C11: an update naming an id absent from the store changes nothing in the
\* store, creates no record and broadcasts nothing.
C11_UpdateDropped ==
  (LastMsg("update") /\ last.msg.id \notin DOMAIN prev) =>
    /\ players = prev
    /\ last.msg.id \notin DOMAIN players
    /\ sent = <<>>

\* Witness of C11: an update for an unknown id while another player is in the
\* store and two connections are open.
C11_Witness ==
  /\ LastMsg("update")
  /\ last.msg.id \notin DOMAIN prev
  /\ DOMAIN prev # {}
  /\ OpenConns = ConnIds

\* C12: when the handler that follows an update processes the identical
\* update message again, the store after the second is the store after the
\* first.
C12_UpdateIdempotent ==
  [][(LastMsg("update") /\ last'.op = "message" /\ last'.msg = last.msg)
       => players' = players]_vars

\* Witness of C12: an update finds its id already at the pose it carries, a
\* pose that only an update carrying it can have stored.
C12_Witness ==
  /\ LastMsg("update")
  /\ last.msg.id \in DOMAIN prev
  /\ last.msg.position # SpawnPosition
  /\ last.msg.rotation # 0
  /\ prev[last.msg.id].position = last.msg.position
  /\ prev[last.msg.id].rotation = last.msg.rotation

\* C13: a shoot leaves the store as it was, whether or not its id is in the
\* store, and is relayed unchanged exactly once, to every connection except
\* the sender.
C13_Shoot ==
  LastMsg("shoot") =>
    /\ players = prev
    /\ Len(sent) = 1
    /\ sent[1].msg = last.msg
    /\ sent[1].to = OpenConns \ {last.sender}
    /\ last.sender \notin sent[1].to

\* Witness of C13: a shoot naming an id that is not in the store, relayed to
\* the other connection.
C13_Witness ==
  /\ LastMsg("shoot")
  /\ last.msg.id \notin DOMAIN prev
  /\ DOMAIN prev # {}
  /\ OpenConns = ConnIds
  /\ sent[1].to = ConnIds \ {last.sender}

\* C14: a hit applied to an alive target is broadcast as a hit to all
\* connections, the sender included; if it killed the target, a sync follows
\* it directly, to all connections, holding the target's isDead = true and
\* the source's incremented score; if the target survived, nothing follows.
C14_HitBroadcasts ==
  HitOnAlive =>
    LET t == last.msg.targetId
        s == last.msg.sourceId IN
    /\ Len(sent) >= 1
    /\ sent[1].msg = [type |-> "hit", targetId |-> t, damage |-> last.msg.damage,
                      sourceId |-> s]
    /\ sent[1].to = OpenConns
    /\ last.sender \in sent[1].to
    /\ IF players[t].isDead
         THEN /\ Len(sent) = 2
              /\ sent[2].msg.type = "sync"
              /\ sent[2].to = OpenConns
              /\ DOMAIN sent[2].msg.players = DOMAIN players
              /\ sent[2].msg.players[t].isDead
              /\ sent[2].msg.players[t].hp = 0
              /\ s \in DOMAIN prev =>
                   sent[2].msg.players[s].score = prev[s].score + 1
         ELSE Len(sent) = 1

\* Witness of C14: a kill credited to a second player, announced to two
\* connections.
C14_Witness ==
  /\ HitKilled
  /\ last.msg.sourceId \in DOMAIN prev
  /\ last.msg.sourceId # last.msg.targetId
  /\ OpenConns = ConnIds
  /\ Len(sent) = 2

C16_ScoreNeverDecreases ==
  \A i \in DOMAIN prev \cap DOMAIN players : players[i].score >= prev[i].score

\* C16 amended: while an id stays in the store its score never decreases,
\* except that a join for that id sets it to 0.
C16_ScoreMonotoneButJoin ==
  \A i \in DOMAIN prev \cap DOMAIN players :
    ~(LastMsg("join") /\ last.msg.id = i) => players[i].score >= prev[i].score

\* Witness of C16: a player holding a point goes through a handler that is
\* not a join for its id.
C16_Witness ==
  \E i \in DOMAIN prev \cap DOMAIN players :
    /\ prev[i].score >= 1
    /\ last.op \in {"message", "close", "unparsable"}
    /\ ~(LastMsg("join") /\ last.msg.id = i)

\* C17: no message, well-formed or not, removes a record from the store;
\* a record disappears only in onClose.
C17_OnlyCloseRemoves ==
  /\ last.op \in {"message", "unparsable"} => DOMAIN prev \subseteq DOMAIN players
  /\ ~(DOMAIN prev \subseteq DOMAIN players) => LastClose

\* Witness of C17: a player is killed and its record is still in the store.
C17_Witness ==
  /\ HitKilled
  /\ last.msg.targetId \in DOMAIN players
  /\ Cardinality(DOMAIN players) = 2

\* Every sync the last handler broadcast shows hp = 0 exactly for the dead.
SyncSnapshotsConsistent ==
  \A k \in 1..Len(sent) :
    sent[k].msg.type = "sync" =>
      \A i \in DOMAIN sent[k].msg.players :
        (sent[k].msg.players[i].hp = 0) <=> sent[k].msg.players[i].isDead

\* The last handler was a kill credited to a source in the store, and this
\* step handles a hit on the same target that would have killed it too,
\* naming another source in the store and sent over another connection.
SecondKill ==
  /\ HitKilled
  /\ last.msg.sourceId \in DOMAIN prev
  /\ last'.op = "message"
  /\ last'.msg.type = "hit"
  /\ last'.msg.targetId = last.msg.targetId
  /\ last'.msg.damage >= prev[last.msg.targetId].hp
  /\ last'.msg.sourceId # last.msg.sourceId
  /\ last'.msg.sourceId \in DOMAIN players
  /\ last'.sender # last.sender

\* C18: handlers are atomic steps in every interleaving of the connections'
\* messages: no sync ever shows hp = 0 with isDead = false, and of two kills
\* of one target sent by different sources over different connections the
\* first is credited one point and followed by one sync, the second credits
\* nobody and broadcasts nothing.
C18_OneKillCredited ==
  /\ []SyncSnapshotsConsistent
  /\ [][SecondKill =>
          /\ players[last.msg.sourceId].score = prev[last.msg.sourceId].score + 1
          /\ Len(sent) = 2
          /\ sent[1].msg.type = "hit"
          /\ sent[2].msg.type = "sync"
          /\ players' = players
          /\ sent' = <<>>]_vars

\* Witness of C18: with a target and two other players in the store, the
\* target is dead, one of the two holds the point, and a kill naming the
\* other one has just been handled.
C18_Witness ==
  /\ LastMsg("hit")
  /\ Cardinality(DOMAIN prev) = 3
  /\ prev[last.msg.targetId].isDead
  /\ last.msg.sourceId # last.msg.targetId
  /\ prev[last.msg.sourceId].score = 0
  /\ \E s \in DOMAIN prev \ {last.msg.sourceId, last.msg.targetId} : prev[s].score = 1
  /\ players = prev
  /\ nmsgs = 5

\* ---------------------------------------------------------------- C19, C20

ClientMsg(t) == clast.op = "message" /\ clast.msg.type = t

LocalInMirror == myId \in DOMAIN cprev /\ myId \in DOMAIN mirror

SyncHasLocal == ClientMsg("sync") /\ myId \in DOMAIN clast.msg.players

\* C19: in the client mirror, the position and rotation of the local player
\* id are never overwritten by an incoming sync or update message: once the
\* handler has run they are what they were before it.
C19_LocalPoseKept ==
  (ClientMsg("sync") \/ ClientMsg("update")) /\ LocalInMirror
    => /\ mirror[myId].position = cprev[myId].position
       /\ mirror[myId].rotation = cprev[myId].rotation

\* C20: after the client processes a sync that contains its own id, its
\* mirror's hp, isDead and score for the local id are the values in that
\* sync.
C20_LocalVitalsAccepted ==
  SyncHasLocal /\ myId \in DOMAIN mirror
    => /\ mirror[myId].hp = clast.msg.players[myId].hp
       /\ mirror[myId].isDead = clast.msg.players[myId].isDead
       /\ mirror[myId].score = clast.msg.players[myId].score

\* -------------------------------------------------------------------- C21

\* A remote id the mirror held that the processed sync does not list.
DepartedIds ==
  IF ClientMsg("sync")
    THEN {x \in DOMAIN cprev : x # myId /\ x \notin DOMAIN clast.msg.players}
    ELSE {}

\* C21: after the client processes a sync whose player map does not contain
\* a remote id X, X is no longer present in the client's mirror.
C21_DepartedRemoved == \A x \in DepartedIds : x \notin DOMAIN mirror

\* -------------------------------------------------------------------- C22

\* The page has run its handler for a hit and for everything the relay sent
\* it since.
HitProcessed == ClientMsg("hit") /\ inbox = <<>>

\* C22: after a hit broadcast has been delivered to and processed by a
\* client, the client's mirror shows the hp the relay's store holds for the
\* target, also when the hit is not lethal and no sync follows.
C22_MirrorHpMatches ==
  HitProcessed /\ clast.msg.targetId \in DOMAIN players
    => /\ clast.msg.targetId \in DOMAIN mirror
       /\ mirror[clast.msg.targetId].hp = players[clast.msg.targetId].hp

\* ---------------------------------------------------------- C23 .. C26, C30

PageOp(o) == clast.op = o

\* A bullet of the page intersected something while the socket was open.
IntersectedOpen == PageOp("intersect") /\ clast.sock = "open"

\* The intersected thing is a player other than the local one.
VictimIsRemote == clast.victim \in DOMAIN cprev /\ clast.victim # myId

\* C23: when a bullet intersects a player, the page sends a hit, naming that
\* player as target and itself as source with damage 10, if and only if it
\* owns the bullet and the player is a remote one.
C23_OwnerReportsHit ==
  IntersectedOpen =>
    ( csent = <<[type |-> "hit", targetId |-> clast.victim,
                 sourceId |-> myId, damage |-> 10]>>
      <=> (clast.bullet.ownerId = myId /\ VictimIsRemote) )

\* C24: a local shoot adds one bullet owned by the local id to the page's
\* bullets at once, whatever the state of the socket, and the shoot message
\* goes out once when the socket is open.
C24_ShootPredicted ==
  PageOp("shoot") =>
    /\ bullets = Append(bprev, bullets[Len(bullets)])
    /\ bullets[Len(bullets)].ownerId = myId
    /\ bullets[Len(bullets)].position = clast.msg.position
    /\ bullets[Len(bullets)].direction = clast.msg.direction
    /\ clast.msg.id = myId
    /\ clast.sock = "open" => csent = <<clast.msg>>
    /\ clast.sock # "open" => csent = <<>>

C24_Witness ==
  /\ PageOp("shoot")
  /\ clast.sock # "open"
  /\ bprev # <<>>
  /\ Len(bullets) = Len(bprev) + 1

\* C25: an update, shoot or hit attempted while the socket is not open is
\* dropped: nothing is transmitted, nothing is held back, and what the
\* socket transmits when it opens is the join only.
C25_NotOpenDropped ==
  /\ queued = <<>>
  /\ (PageOp("shoot") \/ PageOp("frame") \/ PageOp("intersect")
        \/ PageOp("interval")) /\ clast.sock # "open"
       => csent = <<>>
  /\ PageOp("open") => \A i \in 1..Len(csent) : csent[i].type = "join"

\* C26: a render tick by itself sends no update.
C26_FrameSendsNothing == PageOp("frame") => csent = <<>>

\* C30: no two bullets in the page's set at the same time share an id.
C30_BulletIdsUnique ==
  \A i, j \in 1..Len(bullets) : i # j => bullets[i].id # bullets[j].id

\* ---------------------------------------------------------------- C27, C28

Abs(n) == IF n < 0 THEN -n ELSE n

\* The last step was a frame of a displayed opponent.
Ticked == rlast.op = "tick" /\ groupRef = "group"

\* C27: a frame moves the displayed position toward the target without
\* passing it and without the error growing, for any frame length.
C27_NoOvershoot ==
  Ticked =>
    /\ (opp.x - rlast.before) * (opp.x - shown) >= 0
    /\ Abs(opp.x - shown) <= Abs(opp.x - rlast.before)

\* C28: a remote player whose isDead is true has no group on display and no
\* frame changes its displayed pose.
C28_DeadNotInterpolated ==
  opp # NoOpponent /\ opp.isDead =>
    /\ groupRef = "null"
    /\ rlast.op = "tick" => shown = rlast.before

C28_Witness ==
  /\ opp # NoOpponent
  /\ opp.isDead
  /\ rlast.op = "tick"
  /\ shown # opp.x

\* -------------------------------------------------------------------- C29

\* A joined, then B, both connections are open, and B has not hit A.
AThenB ==
  /\ Len(joinLog) = 2
  /\ joinLog[1].id = PlayerA
  /\ joinLog[2].id = PlayerB
  /\ OpenConns = ConnIds
  /\ players[PlayerA].hp = SpawnHp

\* The number of hits A has reported on B.
HitsByA == nmsgs - 2

HitToAll ==
  Broadcast([type |-> "hit", targetId |-> PlayerB, sourceId |-> PlayerA,
             damage |-> 10], ConnIds, {})

SyncToAll == Broadcast(SyncMsg(players), ConnIds, {})

\* C29: on a fresh room where A then B join, A is blue, B is red and the
\* second join's sync goes to both with two entries; each of A's first nine
\* hits of damage 10 on B takes 10 off B's hp and is broadcast to both; the
\* tenth leaves B at hp 0 and dead and A at score 1, and its broadcast is
\* followed by one sync showing that score; the eleventh changes nothing
\* and sends nothing.
C29_TenHitsKill ==
  AThenB =>
    /\ players[PlayerA].team = "blue"
    /\ players[PlayerB].team = "red"
    /\ HitsByA = 0 /\ LastMsg("join") =>
         /\ sent = <<SyncToAll>>
         /\ Cardinality(DOMAIN players) = 2
    /\ HitsByA \in 1..9 =>
         /\ players[PlayerB].hp = SpawnHp - 10 * HitsByA
         /\ ~players[PlayerB].isDead
         /\ players[PlayerA].score = 0
         /\ sent = <<HitToAll>>
    /\ HitsByA = 10 =>
         /\ players[PlayerB].hp = 0
         /\ players[PlayerB].isDead
         /\ players[PlayerA].score = 1
         /\ sent = <<HitToAll, SyncToAll>>
    /\ HitsByA = 11 =>
         /\ players = prev
         /\ players[PlayerB].hp = 0
         /\ players[PlayerA].score = 1
         /\ sent = <<>>

C29_Witness ==
  /\ AThenB
  /\ HitsByA = 11
  /\ LastMsg("hit")
  /\ players[PlayerB].isDead

\* ---------------------------------------------------------- C32, C34 .. C37

RelayedTypes == {"sync", "update", "shoot", "hit"}

\* C32: whatever the relay receives, every message it broadcasts is a sync,
\* an update, a shoot or a hit.
C32_OnlyRelayedTypes ==
  \A k \in 1..Len(sent) : sent[k].msg.type \in RelayedTypes

\* Witness of C32: a kill message arrives with connections open to answer to.
C32_Witness == LastMsg("kill") /\ OpenConns = ConnIds /\ sent = <<>>

\* The last handler was a join for id i.
JoinFor(i) == LastMsg("join") /\ last.msg.id = i

\* C34: a dead player has hp 0, and stays dead with hp 0 through every
\* handler that is not a join for its id and does not remove its record.
C34_DeadAbsorbing ==
  \A i \in DOMAIN prev :
    prev[i].isDead =>
      /\ prev[i].hp = 0
      /\ i \in DOMAIN players /\ ~JoinFor(i) =>
           players[i].isDead /\ players[i].hp = 0

\* Witness of C34: a hit that would heal names a dead player.
C34_Witness ==
  /\ LastMsg("hit")
  /\ last.msg.targetId \in DOMAIN prev
  /\ prev[last.msg.targetId].isDead
  /\ last.msg.damage < 0

\* C35: on a lethal hit the record named by sourceId, when in the store,
\* gains one point: also when it is the target itself, when it is dead, and
\* whichever connection sent the hit.
C35_CreditUnconditional ==
  HitKilled /\ last.msg.sourceId \in DOMAIN prev =>
    players[last.msg.sourceId].score = prev[last.msg.sourceId].score + 1

\* Witness of C35: a dead player is credited with a kill.
C35_Witness ==
  /\ HitKilled
  /\ last.msg.sourceId \in DOMAIN prev
  /\ prev[last.msg.sourceId].isDead
  /\ players[last.msg.sourceId].score = prev[last.msg.sourceId].score + 1

\* C36: a hit changes at most the target's hp and isDead and the source's
\* score; the ids in the store and every other field are unchanged.
C36_HitFrame ==
  LastMsg("hit") =>
    /\ DOMAIN players = DOMAIN prev
    /\ \A i \in DOMAIN prev :
         /\ players[i].id = prev[i].id
         /\ players[i].position = prev[i].position
         /\ players[i].rotation = prev[i].rotation
         /\ players[i].team = prev[i].team
         /\ players[i].nickname = prev[i].nickname
         /\ i # last.msg.targetId =>
              players[i].hp = prev[i].hp /\ players[i].isDead = prev[i].isDead
         /\ i # last.msg.sourceId => players[i].score = prev[i].score

\* Witness of C36: a hit lands while a bystander is in the store.
C36_Witness ==
  /\ HitOnAlive
  /\ players[last.msg.targetId].hp # prev[last.msg.targetId].hp
  /\ \E i \in DOMAIN prev : i # last.msg.targetId /\ i # last.msg.sourceId

\* C37: a player's position and rotation change only through an update or
\* a join naming its id.
C37_PoseFrame ==
  \A i \in DOMAIN prev \cap DOMAIN players :
    (players[i].position # prev[i].position
       \/ players[i].rotation # prev[i].rotation)
      => (LastMsg("update") \/ LastMsg("join")) /\ last.msg.id = i

\* Witness of C37: a player away from the spawn pose is hit.
C37_Witness ==
  /\ HitOnAlive
  /\ prev[last.msg.targetId].position # SpawnPosition
  /\ players[last.msg.targetId].hp # prev[last.msg.targetId].hp

\* -------------------------------------------------------------------- C31

\* The ids a bullet of the page can carry.
AllBulletIds ==
  {<<o, t>> : o \in ClientUuids, t \in 0..MaxClock}
    \cup {<<"uuid", n>> : n \in 0..MaxUuids}

HasBullet(id) == \E i \in 1..Len(bullets) : bullets[i].id = id

\* C31: every bullet added to the page's bullet set is eventually removed
\* from it, by its timeout when it collides with nothing.
C31_BulletsExpire ==
  \A id \in AllBulletIds : HasBullet(id) ~> ~HasBullet(id)

\* -------------------------------------------------------------------- C33

\* C33: on every connection the page transmits its join before any update,
\* shoot or hit: nothing leaves while the socket is not open, and what
\* leaves when it opens starts with the join.
C33_JoinFirst ==
  /\ sock # "open" => csent = <<>>
  /\ PageOp("open") => csent # <<>> /\ csent[1].type = "join"

\* -------------------------------------------------------------------- C38

\* The local player was dead in the mirror when the last handler ran.
LocalWasDead == myId \in DOMAIN cprev /\ cprev[myId].isDead

\* C38: a frame, a shoot trigger or a broadcast tick that runs while the
\* local player is dead in the mirror transmits nothing and spawns no
\* bullet.
C38_DeadSendsNothing ==
  (PageOp("frame") \/ PageOp("shoot") \/ PageOp("interval")) /\ LocalWasDead
    => csent = <<>> /\ bullets = bprev

\* A frame of the PartySocket page ran with the socket open and the local
\* player dead.
C38_Witness ==
  /\ PageOp("frame")
  /\ build = "PartySocket"
  /\ clast.sock = "open"
  /\ LocalWasDead
  /\ csent = <<>>

\* -------------------------------------------------------------------- C39

\* The defaults of a record updatePlayer creates.
CreatedDefaults ==
  [position |-> [x |-> 0, y |-> 1, z |-> 0], rotation |-> 0, hp |-> 100,
   isDead |-> FALSE, score |-> 0, team |-> "blue", nickname |-> "Unknown"]

\* C39: updatePlayer(id, data) touches the entry of id only: an existing
\* entry keeps every field data does not name and takes the ones it names, a
\* missing one is created from the defaults overlaid with data; every other
\* entry stays as it was, and removePlayer(id) takes out exactly id.
C39_UpsertFrame ==
  /\ PageOp("updatePlayer") =>
        LET id == clast.id
            data == clast.data
        IN  /\ DOMAIN mirror = DOMAIN cprev \cup {id}
            /\ \A i \in DOMAIN cprev \ {id} : mirror[i] = cprev[i]
            /\ \A f \in DOMAIN data : mirror[id][f] = data[f]
            /\ id \in DOMAIN cprev =>
                  /\ DOMAIN mirror[id] = DOMAIN cprev[id] \cup DOMAIN data
                  /\ \A f \in DOMAIN cprev[id] \ DOMAIN data :
                        mirror[id][f] = cprev[id][f]
            /\ id \notin DOMAIN cprev =>
                  \A f \in DOMAIN CreatedDefaults \ DOMAIN data :
                    mirror[id][f] = CreatedDefaults[f]
  /\ PageOp("removePlayer") =>
        /\ DOMAIN mirror = DOMAIN cprev \ {clast.id}
        /\ \A i \in DOMAIN mirror : mirror[i] = cprev[i]

\* A pose was written into an existing entry that had been changed before,
\* next to another entry.
C39_Witness ==
  /\ PageOp("updatePlayer")
  /\ "position" \in DOMAIN clast.data
  /\ "hp" \notin DOMAIN clast.data
  /\ clast.id \in DOMAIN cprev
  /\ cprev[clast.id].isDead
  /\ DOMAIN cprev = ClientUuids
  /\ mirror[clast.id].isDead

\* -------------------------------------------------------------------- C40

\* C40: the phase changes only from LOBBY to PLAYING by a start with a
\* non-blank nickname, and to LOBBY by resetGame, which also empties the
\* mirror and clears the local id; the message listener never changes it,
\* also not when the message marks the local player dead.
C40_PhaseChanges ==
  [][/\ clast'.op = "message" => phase' = phase
     /\ phase' # phase =>
           \/ /\ phase = "LOBBY"
              /\ phase' = "PLAYING"
              /\ clast'.op = "start"
              /\ Trim(nickname') # ""
           \/ /\ phase' = "LOBBY"
              /\ clast'.op = "reset"
     /\ clast'.op = "reset" =>
           phase' = "LOBBY" /\ mirror' = <<>> /\ myId' = NoId]_vars

\* A message has just marked the local player dead and the phase is still
\* PLAYING.
C40_Witness ==
  /\ PageOp("message")
  /\ myId \in DOMAIN mirror
  /\ mirror[myId].isDead
  /\ ~cprev[myId].isDead
  /\ phase = "PLAYING"

====
